---- MODULE Spec2Model ----
(***************************************************************************)
(* Model of the ADI Agent Loop plugin (src/src/lib.rs): the plugin         *)
(* lifecycle entry points plugin_init / plugin_cleanup, the two service    *)
(* vtables (MCP tools, MCP resources) and the host registry / dispatcher   *)
(* they are called through.                                                *)
(*                                                                         *)
(* Text payloads are modelled at token granularity: a payload is a         *)
(* sequence of JSON tokens, from_str is a recursive-descent parser over    *)
(* it and to_string is the serialiser that produces it.                    *)
(***************************************************************************)
EXTENDS FiniteSets, Integers, Sequences, TLC

VARIABLES
    phase,      \* lifecycle state of this module as driven by the host
    registry,   \* host registry: set of registered (descriptor, handle) entries
    status,     \* value returned by the last plugin_init call
    diag,       \* host-visible diagnostics emitted by the last plugin_init call
    regCalls,   \* register_svc calls made by the last plugin_init call, in order
    lastOp,     \* the lifecycle operation that produced the current state
    freed,      \* TRUE once the host has released the PluginContext
    inits,      \* number of plugin_init calls made so far
    callers,    \* caller threads with a dispatch in flight; flight notes a dispatch
                \* resolved while the module was active ("active") and one whose
                \* entry point then ran after cleanup and release ("raced")
    call,       \* direct entry-point call under test: its input
    ret         \* direct entry-point call under test: its output

vars == <<phase, registry, status, diag, regCalls, lastOp, freed, inits, callers, call, ret>>

lifecycleVars == <<phase, registry, status, diag, regCalls, lastOp, freed, inits, callers>>

(***************************************************************************)
(* Bounds                                                                  *)
(***************************************************************************)
MaxTrunc == 2       \* trailing tokens dropped from a payload to corrupt it
MaxInits == 2       \* plugin_init calls in one run
MaxCode == 1        \* magnitude of host error codes

(***************************************************************************)
(* Structured values (serde_json::Value)                                   *)
(***************************************************************************)
Null == [t |-> "null"]
Str(s) == [t |-> "str", s |-> s]
Num(n) == [t |-> "num", n |-> n]
Arr(a) == [t |-> "arr", a |-> a]
Obj(o) == [t |-> "obj", o |-> o]

EmptyMap == <<>>

MapInsert(m, key, v) == [k \in (DOMAIN m) \cup {key} |-> IF k = key THEN v ELSE m[k]]

\* Value::get(key): Some only for an object that has the key
Has(v, key) == v.t = "obj" /\ key \in DOMAIN v.o

\* params.get(key).and_then(|v| v.as_str()) is Some
HasStr(v, key) == Has(v, key) /\ v.o[key].t = "str"

\* Keys of every object the module builds or reads, in the byte order in
\* which the serialiser emits the keys of a map.
KeyOrder == <<"args", "content", "default", "description", "id", "inputSchema",
              "limit", "max_steps", "mimeType", "name", "properties", "required",
              "task", "text", "type", "uri">>

(***************************************************************************)
(* Tokens of the text form                                                 *)
(***************************************************************************)
Tok(k) == [k |-> k]
StrTok(s) == [k |-> "str", s |-> s]
NumTok(n) == [k |-> "num", n |-> n]

RECURSIVE to_string(_)
RECURSIVE EncMembers(_, _, _)
RECURSIVE EncElems(_, _)

\* members of map o whose keys are KeyOrder[i..], comma separated
EncMembers(o, i, first) ==
    IF i > Len(KeyOrder) THEN <<>>
    ELSE IF KeyOrder[i] \in DOMAIN o
         THEN (IF first THEN <<>> ELSE <<Tok(",")>>)
              \o <<StrTok(KeyOrder[i]), Tok(":")>> \o to_string(o[KeyOrder[i]])
              \o EncMembers(o, i + 1, FALSE)
         ELSE EncMembers(o, i + 1, first)

EncElems(a, i) ==
    IF i > Len(a) THEN <<>>
    ELSE (IF i = 1 THEN <<>> ELSE <<Tok(",")>>) \o to_string(a[i]) \o EncElems(a, i + 1)

to_string(v) ==
    CASE v.t = "null" -> <<Tok("null")>>
      [] v.t = "str"  -> <<StrTok(v.s)>>
      [] v.t = "num"  -> <<NumTok(v.n)>>
      [] v.t = "arr"  -> <<Tok("[")>> \o EncElems(v.a, 1) \o <<Tok("]")>>
      [] v.t = "obj"  -> <<Tok("{")>> \o EncMembers(v.o, 1, TRUE) \o <<Tok("}")>>

POk(v, next) == [ok |-> TRUE, v |-> v, next |-> next]
PErr(e) == [ok |-> FALSE, e |-> e]

RECURSIVE ParseValue(_, _)
RECURSIVE ParseMember(_, _, _)
RECURSIVE ParseElem(_, _, _)

\* a member is expected at toks[i]; m holds the members read so far
ParseMember(toks, i, m) ==
    IF i > Len(toks) THEN PErr("EOF while parsing an object")
    ELSE IF toks[i].k = "}" THEN PErr("trailing comma")
    ELSE IF toks[i].k # "str" THEN PErr("key must be a string")
    ELSE IF i + 1 > Len(toks) THEN PErr("EOF while parsing an object")
    ELSE IF toks[i + 1].k # ":" THEN PErr("expected ':'")
    ELSE LET r == ParseValue(toks, i + 2) IN
         IF ~r.ok THEN r
         ELSE LET m2 == MapInsert(m, toks[i].s, r.v)
                  j == r.next
              IN IF j > Len(toks) THEN PErr("EOF while parsing an object")
                 ELSE IF toks[j].k = "," THEN ParseMember(toks, j + 1, m2)
                 ELSE IF toks[j].k = "}" THEN POk(Obj(m2), j + 1)
                 ELSE PErr("expected ',' or '}'")

\* an element is expected at toks[i]; a holds the elements read so far
ParseElem(toks, i, a) ==
    IF i > Len(toks) THEN PErr("EOF while parsing a list")
    ELSE IF toks[i].k = "]" THEN PErr("trailing comma")
    ELSE LET r == ParseValue(toks, i) IN
         IF ~r.ok THEN r
         ELSE LET a2 == Append(a, r.v)
                  j == r.next
              IN IF j > Len(toks) THEN PErr("EOF while parsing a list")
                 ELSE IF toks[j].k = "," THEN ParseElem(toks, j + 1, a2)
                 ELSE IF toks[j].k = "]" THEN POk(Arr(a2), j + 1)
                 ELSE PErr("expected ',' or ']'")

ParseValue(toks, i) ==
    IF i > Len(toks) THEN PErr("EOF while parsing a value")
    ELSE CASE toks[i].k = "null" -> POk(Null, i + 1)
           [] toks[i].k = "str"  -> POk(Str(toks[i].s), i + 1)
           [] toks[i].k = "num"  -> POk(Num(toks[i].n), i + 1)
           [] toks[i].k = "{"    ->
                IF i + 1 > Len(toks) THEN PErr("EOF while parsing an object")
                ELSE IF toks[i + 1].k = "}" THEN POk(Obj(EmptyMap), i + 2)
                ELSE ParseMember(toks, i + 1, EmptyMap)
           [] toks[i].k = "["    ->
                IF i + 1 > Len(toks) THEN PErr("EOF while parsing a list")
                ELSE IF toks[i + 1].k = "]" THEN POk(Arr(<<>>), i + 2)
                ELSE ParseElem(toks, i + 1, <<>>)
           [] OTHER              -> PErr("expected value")

\* serde_json::from_str: one value, then end of input
from_str(toks) ==
    LET r == ParseValue(toks, 1) IN
    IF ~r.ok THEN r
    ELSE IF r.next <= Len(toks) THEN PErr("trailing characters")
    ELSE r

(***************************************************************************)
(* Results and errors crossing the boundary                                *)
(***************************************************************************)
ROk(s) == [ok |-> TRUE, val |-> s]
RErr(e) == [ok |-> FALSE, err |-> e]

method_not_found(name) == [kind |-> "MethodNotFound", message |-> name]
invocation_error(msg) == [kind |-> "InvocationError", message |-> msg]

\* Result<String, ServiceError> inside the module
Ok(s) == [is_ok |-> TRUE, s |-> s]
Err(e) == [is_ok |-> FALSE, e |-> e]

\* an early `return` out of the match
Return(r) == [is_ok |-> FALSE, returned |-> r]

\* match result { Ok(s) => ROk(RString::from(s)), Err(e) => RErr(e) }
into_rresult(result) ==
    IF "returned" \in DOMAIN result THEN result.returned
    ELSE IF result.is_ok THEN ROk(result.s)
    ELSE RErr(result.e)

(***************************************************************************)
(* MCP tools service                                                       *)
(***************************************************************************)
tool_result(text) ==
    to_string(Obj([content |-> Arr(<<Obj([type |-> Str("text"), text |-> Str(text)])>>)]))

list_tools_json ==
    to_string(Arr(<<
        Obj([name |-> Str("agent_run"),
             description |-> Str("Run an agent with a given task"),
             inputSchema |-> Obj([
                 type |-> Str("object"),
                 properties |-> Obj([
                     task |-> Obj([type |-> Str("string"),
                                   description |-> Str("Task description for the agent")]),
                     max_steps |-> Obj([type |-> Str("integer"),
                                        default |-> Num(10),
                                        description |-> Str("Maximum number of steps")])]),
                 required |-> Arr(<<Str("task")>>)])]),
        Obj([name |-> Str("agent_sessions"),
             description |-> Str("List agent sessions"),
             inputSchema |-> Obj([
                 type |-> Str("object"),
                 properties |-> Obj([
                     limit |-> Obj([type |-> Str("integer"), default |-> Num(10)])])])]),
        Obj([name |-> Str("agent_session_get"),
             description |-> Str("Get details of a specific session"),
             inputSchema |-> Obj([
                 type |-> Str("object"),
                 properties |-> Obj([
                     id |-> Obj([type |-> Str("string"),
                                 description |-> Str("Session ID")])]),
                 required |-> Arr(<<Str("id")>>)])])
    >>))

\* variant: the agent_sessions arm is missing
call_tool_missing_arm(tool_name, args) ==
    CASE tool_name = "agent_run" ->
            IF HasStr(args, "task")
            THEN Ok(tool_result("Agent would execute task: " \o args.o["task"].s
                        \o ". Full implementation requires LLM configuration."))
            ELSE Err(invocation_error("Missing task"))
      [] tool_name = "agent_session_get" ->
            IF HasStr(args, "id")
            THEN Err(invocation_error("Session " \o args.o["id"].s \o " not found"))
            ELSE Err(invocation_error("Missing id"))
      [] OTHER -> Err(invocation_error("Unknown tool: " \o tool_name))

call_tool(tool_name, args) ==
    CASE tool_name = "agent_run" ->
            IF HasStr(args, "task")
            THEN Ok(tool_result("Agent would execute task: " \o args.o["task"].s
                        \o ". Full implementation requires LLM configuration."))
            ELSE Err(invocation_error("Missing task"))
      [] tool_name = "agent_sessions" -> Ok(tool_result("[]"))
      [] tool_name = "agent_session_get" ->
            IF HasStr(args, "id")
            THEN Err(invocation_error("Session " \o args.o["id"].s \o " not found"))
            ELSE Err(invocation_error("Missing id"))
      [] OTHER -> Err(invocation_error("Unknown tool: " \o tool_name))

\* params.get("name").and_then(|v| v.as_str()).unwrap_or("")
tool_name_of(params) == IF HasStr(params, "name") THEN params.o["name"].s ELSE ""

\* params.get("args").cloned().unwrap_or(json!({}))
tool_args_of(params) == IF Has(params, "args") THEN params.o["args"] ELSE Obj(EmptyMap)

tools_match(method, args) ==
    CASE method = "list_tools" -> Ok(list_tools_json)
      [] method = "call_tool" ->
            LET parsed == from_str(args) IN
            IF ~parsed.ok
            THEN Return(RErr(invocation_error("Invalid args: " \o parsed.e)))
            ELSE call_tool(tool_name_of(parsed.v), tool_args_of(parsed.v))
      [] OTHER -> Err(method_not_found(method))

\* variant: the entry point reads the PluginContext behind the handle first;
\* once the host has released it the read yields garbage
mcp_tools_invoke_deref(_handle, method, args) ==
    IF _handle \in freed
    THEN RErr([kind |-> "Internal", message |-> "read of released PluginContext"])
    ELSE into_rresult(tools_match(method, args))

mcp_tools_invoke(_handle, method, args) == into_rresult(tools_match(method, args))

ServiceMethod(name, description) == [name |-> name, description |-> description]

\* variant: the listing omits call_tool
mcp_tools_list_methods_short(_handle) ==
    << ServiceMethod("list_tools", "List all available tools") >>

mcp_tools_list_methods(_handle) ==
    << ServiceMethod("list_tools", "List all available tools"),
       ServiceMethod("call_tool", "Call a tool by name with arguments") >>

(***************************************************************************)
(* MCP resources service                                                   *)
(***************************************************************************)
list_resources_json ==
    to_string(Arr(<<
        Obj([uri |-> Str("agent://sessions"),
             name |-> Str("Agent Sessions"),
             description |-> Str("List of all agent sessions"),
             mimeType |-> Str("application/json")])
    >>))

\* variant: an unknown method is reported as a generic invocation failure
resources_match_generic(method, _args) ==
    CASE method = "list_resources" -> Ok(list_resources_json)
      [] method = "read_resource" -> Err(invocation_error("Not implemented"))
      [] OTHER -> Err(invocation_error("Unknown method: " \o method))

resources_match(method, _args) ==
    CASE method = "list_resources" -> Ok(list_resources_json)
      [] method = "read_resource" -> Err(invocation_error("Not implemented"))
      [] OTHER -> Err(method_not_found(method))

mcp_resources_invoke(_handle, method, _args) == into_rresult(resources_match(method, _args))

mcp_resources_list_methods(_handle) ==
    << ServiceMethod("list_resources", "List all available resources"),
       ServiceMethod("read_resource", "Read a resource by URI") >>

(***************************************************************************)
(* Descriptors and handles built by plugin_init                            *)
(***************************************************************************)
SERVICE_MCP_TOOLS == "mcp.tools"
SERVICE_MCP_RESOURCES == "mcp.resources"

PLUGIN_ID == "adi.agent-loop"
OTHER_MODULE == "other.module"

ServiceIds == {SERVICE_MCP_TOOLS, SERVICE_MCP_RESOURCES}

ServiceVersion(major, minor, patch) == [major |-> major, minor |-> minor, patch |-> patch]

ServiceDescriptor(id, version, provider, description) ==
    [id |-> id, version |-> version, provider |-> provider, description |-> description]

ServiceHandle(id, ptr, vtable) == [service_id |-> id, ptr |-> ptr, vtable |-> vtable]

MCP_TOOLS_VTABLE == [invoke |-> "mcp_tools_invoke", list_methods |-> "mcp_tools_list_methods"]
MCP_RESOURCES_VTABLE ==
    [invoke |-> "mcp_resources_invoke", list_methods |-> "mcp_resources_list_methods"]
OTHER_VTABLE == [invoke |-> "other_invoke", list_methods |-> "other_list_methods"]

tools_descriptor ==
    ServiceDescriptor(SERVICE_MCP_TOOLS, ServiceVersion(1, 0, 0), PLUGIN_ID,
                      "MCP tools for agent operations")

tools_handle(ctx) == ServiceHandle(SERVICE_MCP_TOOLS, ctx, MCP_TOOLS_VTABLE)

\* variant: the resources service is described with another version
resources_descriptor_v0 ==
    ServiceDescriptor(SERVICE_MCP_RESOURCES, ServiceVersion(0, 1, 0), PLUGIN_ID,
                      "MCP resources for agent session data")

resources_descriptor ==
    ServiceDescriptor(SERVICE_MCP_RESOURCES, ServiceVersion(1, 0, 0), PLUGIN_ID,
                      "MCP resources for agent session data")

resources_handle(ctx) == ServiceHandle(SERVICE_MCP_RESOURCES, ctx, MCP_RESOURCES_VTABLE)

(***************************************************************************)
(* Host side: registry, diagnostics, dispatcher                            *)
(***************************************************************************)
\* nonzero status codes the host may answer a rejected registration with
ErrCodes == ((0 - MaxCode)..MaxCode) \ {0}

Registered(reg, id) == \E e \in reg : e.descriptor.id = id

\* host.register_svc: rejects an identifier that is already present, may
\* reject for a reason of its own (fault), otherwise inserts the entry.
\* A rejection is Err(code) with the host's nonzero code.
register_svc(reg, descriptor, handle, fault, code) ==
    IF Registered(reg, descriptor.id) \/ fault
    THEN [ok |-> FALSE, code |-> code, reg |-> reg]
    ELSE [ok |-> TRUE, code |-> 0,
          reg |-> reg \cup {[descriptor |-> descriptor, handle |-> handle]}]

host_error(text, code) == [level |-> "error", text |-> text, code |-> code]
host_info(text) == [level |-> "info", text |-> text]

RegCall(descriptor, handle, r) == [descriptor |-> descriptor, handle |-> handle, ok |-> r.ok]

(***************************************************************************)
(* plugin_init                                                             *)
(***************************************************************************)
\* variant: the failure is returned but never reported to the host
register_failed_silent(text, code) == [status |-> code, diag |-> <<>>]

\* variant: the failure is reported but plugin_init still returns 0
register_failed_zero(text, code) == [status |-> 0, diag |-> <<host_error(text, code)>>]

\* if let Err(code) = host.register_svc(..) { host.error(..); return code; }
register_failed(text, code) == [status |-> code, diag |-> <<host_error(text, code)>>]

\* The whole of plugin_init against registry reg with context pointer ctx;
\* (f1, c1) and (f2, c2) are the host's answers to the two register_svc calls.
init_outcome(reg, ctx, f1, c1, f2, c2) ==
    LET r1 == register_svc(reg, tools_descriptor, tools_handle(ctx), f1, c1)
        call1 == RegCall(tools_descriptor, tools_handle(ctx), r1)
    IN IF ~r1.ok
       THEN LET f == register_failed("Failed to register MCP tools service: {}", r1.code)
            IN [status |-> f.status, diag |-> f.diag, reg |-> r1.reg, calls |-> <<call1>>]
       ELSE LET r2 == register_svc(r1.reg, resources_descriptor, resources_handle(ctx), f2, c2)
                call2 == RegCall(resources_descriptor, resources_handle(ctx), r2)
            IN IF ~r2.ok
               THEN LET f == register_failed("Failed to register MCP resources service: {}",
                                             r2.code)
                    IN [status |-> f.status, diag |-> f.diag, reg |-> r2.reg,
                        calls |-> <<call1, call2>>]
               ELSE [status |-> 0,
                     diag |-> <<host_info("ADI Agent Loop plugin initialized")>>,
                     reg |-> r2.reg, calls |-> <<call1, call2>>]

\* The host calls plugin_init with a fresh PluginContext (numbered by call).
plugin_init ==
    /\ inits < MaxInits
    /\ \E f1 \in BOOLEAN, f2 \in BOOLEAN, c1 \in ErrCodes, c2 \in ErrCodes :
         LET out == init_outcome(registry, inits + 1, f1, c1, f2, c2) IN
         /\ registry' = out.reg
         /\ status' = <<out.status>>
         /\ diag' = out.diag
         /\ regCalls' = out.calls
         /\ phase' = IF out.status = 0 THEN "active"
                     ELSE IF phase = "active" THEN "active" ELSE "failed"
    /\ inits' = inits + 1
    /\ lastOp' = "init"
    /\ UNCHANGED <<freed, callers, call, ret>>

(***************************************************************************)
(* plugin_cleanup                                                          *)
(***************************************************************************)
\* extern "C" fn plugin_cleanup(_ctx: *mut PluginContext) {}
cleanup_registry(reg) == reg

plugin_cleanup ==
    /\ phase \in {"active", "failed"}
    /\ registry' = cleanup_registry(registry)
    /\ phase' = "cleaned"
    /\ lastOp' = "cleanup"
    /\ UNCHANGED <<status, diag, regCalls, freed, inits, callers, call, ret>>

(***************************************************************************)
(* Host and other modules acting on the registry                           *)
(***************************************************************************)
OwnEntries(reg) == {e \in reg : e.descriptor.provider = PLUGIN_ID}

\* registry.unregister(identifier) by the module that provided it
unregister(reg, id, provider) ==
    {e \in reg : ~(e.descriptor.id = id /\ e.descriptor.provider = provider)}

\* After cleanup the host treats what the module left behind as a leak and
\* force-removes it.
HostForceRemove ==
    /\ phase = "cleaned"
    /\ OwnEntries(registry) # {}
    /\ registry' = registry \ OwnEntries(registry)
    /\ lastOp' = "force_remove"
    /\ UNCHANGED <<phase, status, diag, regCalls, freed, inits, callers, call, ret>>

\* After cleanup the host releases the PluginContext it passed to plugin_init.
HostFreeContext ==
    /\ phase = "cleaned"
    /\ inits \notin freed
    /\ freed' = freed \cup {inits}
    /\ UNCHANGED <<phase, registry, status, diag, regCalls, lastOp, inits, callers, call, ret>>

other_descriptor(id) ==
    ServiceDescriptor(id, ServiceVersion(1, 0, 0), OTHER_MODULE, "provided by another module")

\* Another module registers one of the two identifiers for itself.
OtherRegister(id) ==
    LET r == register_svc(registry, other_descriptor(id),
                          ServiceHandle(id, 0, OTHER_VTABLE), FALSE, 1)
    IN /\ r.ok
       /\ registry' = r.reg
       /\ lastOp' = "other_register"
       /\ UNCHANGED <<phase, status, diag, regCalls, freed, inits, callers, call, ret>>

OtherUnregister(id) ==
    /\ \E e \in registry : e.descriptor.id = id /\ e.descriptor.provider = OTHER_MODULE
    /\ registry' = unregister(registry, id, OTHER_MODULE)
    /\ lastOp' = "other_unregister"
    /\ UNCHANGED <<phase, status, diag, regCalls, freed, inits, callers, call, ret>>

(***************************************************************************)
(* Dispatch through a registered handle                                    *)
(***************************************************************************)
NoHandle == ServiceHandle("", 0, [invoke |-> "", list_methods |-> ""])
NoResult == [ok |-> FALSE, err |-> [kind |-> "", message |-> ""]]

not_registered(id) == [kind |-> "NotRegistered", message |-> id]

resolve(reg, id) ==
    IF Registered(reg, id)
    THEN (CHOOSE e \in reg : e.descriptor.id = id).handle
    ELSE NoHandle

\* what another module's service answers: opaque to this module
other_invoke(_handle, method, args) == ROk(to_string(Null))
other_list_methods(_handle) == <<>>

\* (handle.vtable.invoke)(handle.ptr, method, args)
vtable_invoke(handle, method, args) ==
    CASE handle.vtable.invoke = "mcp_tools_invoke" ->
            mcp_tools_invoke(handle.ptr, method, args)
      [] handle.vtable.invoke = "mcp_resources_invoke" ->
            mcp_resources_invoke(handle.ptr, method, args)
      [] OTHER -> other_invoke(handle.ptr, method, args)

\* (handle.vtable.list_methods)(handle.ptr)
vtable_list_methods(handle) ==
    CASE handle.vtable.list_methods = "mcp_tools_list_methods" ->
            mcp_tools_list_methods(handle.ptr)
      [] handle.vtable.list_methods = "mcp_resources_list_methods" ->
            mcp_resources_list_methods(handle.ptr)
      [] OTHER -> other_list_methods(handle.ptr)

\* caller threads dispatching concurrently with the host's lifecycle thread
CallerThreads == {"caller"}

IdleCaller ==
    [pc |-> "idle", id |-> "", op |-> "", method |-> "", args |-> <<>>,
     handle |-> NoHandle, result |-> NoResult, flight |-> ""]

\* (method, args) pairs the caller threads dispatch
SampleCalls ==
    { <<"list_tools", to_string(Obj(EmptyMap))>>,
      <<"call_tool", <<Tok("{")>> >>,
      <<"list_resources", to_string(Obj(EmptyMap))>>,
      <<"", to_string(Null)>> }

\* Step 1 of dispatch / discovery: resolve the identifier.
DispatchResolve(c) ==
    /\ callers[c].pc = "idle"
    /\ \E id \in ServiceIds, op \in {"invoke", "list_methods"}, mc \in SampleCalls :
         /\ op = "list_methods" => mc[1] = ""
         /\ LET h == resolve(registry, id) IN
            callers' = [callers EXCEPT ![c] =
                [pc |-> IF h = NoHandle THEN "done" ELSE "resolved",
                 id |-> id, op |-> op, method |-> mc[1], args |-> mc[2],
                 handle |-> h,
                 result |-> IF h = NoHandle THEN RErr(not_registered(id)) ELSE NoResult,
                 flight |-> IF h # NoHandle /\ phase = "active" THEN "active" ELSE ""]]
    /\ UNCHANGED <<phase, registry, status, diag, regCalls, lastOp, freed, inits, call, ret>>

\* Step 3 of dispatch: forward to the entry point of the resolved handle,
\* outside any registry lock.
DispatchInvoke(c) ==
    /\ callers[c].pc = "resolved"
    /\ LET cur == callers[c] IN
       callers' = [callers EXCEPT ![c] =
          [cur EXCEPT !.pc = "done",
                      !.flight = IF cur.flight = "active" /\ phase = "cleaned"
                                    /\ cur.handle.ptr \in freed
                                 THEN "raced" ELSE "",
                      !.result = IF cur.op = "invoke"
                                 THEN vtable_invoke(cur.handle, cur.method, cur.args)
                                 ELSE ROk(vtable_list_methods(cur.handle))]]
    /\ UNCHANGED <<phase, registry, status, diag, regCalls, lastOp, freed, inits, call, ret>>

DispatchReturn(c) ==
    /\ callers[c].pc = "done"
    /\ callers' = [callers EXCEPT ![c] = IdleCaller]
    /\ UNCHANGED <<phase, registry, status, diag, regCalls, lastOp, freed, inits, call, ret>>

(***************************************************************************)
(* Direct calls of the entry points, over a bounded set of inputs          *)
(***************************************************************************)
MethodNames ==
    {"list_tools", "call_tool", "list_resources", "read_resource", "", "bogus", "LIST_TOOLS"}

NameChoices ==
    {Str(n) : n \in {"agent_run", "agent_sessions", "agent_session_get", "bogus", ""}}
        \cup {Num(1), Null}

ArgChoices ==
    { Obj(EmptyMap), Obj([task |-> Str("t")]), Obj([task |-> Num(1)]),
      Obj([id |-> Str("s1")]), Obj([id |-> Num(1)]), Str("x") }

ParamValues ==
    {Obj(EmptyMap), Null, Num(1), Str("agent_run"), Arr(<<Str("agent_run")>>)}
        \cup {Obj([name |-> n]) : n \in NameChoices}
        \cup {Obj([args |-> a]) : a \in ArgChoices}
        \cup {Obj([name |-> n, args |-> a]) : n \in NameChoices, a \in ArgChoices}

Truncate(toks, k) == IF k >= Len(toks) THEN <<>> ELSE SubSeq(toks, 1, Len(toks) - k)

Payloads ==
    {Truncate(to_string(v), k) : v \in ParamValues, k \in 0..MaxTrunc}
        \cup { <<Tok("{"), StrTok("name"), Tok(":"), StrTok("bogus"), Tok(","),
                 StrTok("name"), Tok(":"), StrTok("agent_sessions"), Tok("}")>>,
               <<Tok("{"), Tok("}"), Tok("{"), Tok("}")>>,
               <<Tok("{"), StrTok("name"), StrTok("agent_run"), Tok("}")>>,
               <<Tok("["), StrTok("agent_run"), Tok(","), Tok("]")>>,
               <<Tok("{"), NumTok(1), Tok(":"), StrTok("agent_run"), Tok("}")>> }

DirectCalls ==
    [svc : ServiceIds, op : {"invoke"}, method : MethodNames, args : Payloads]
        \cup [svc : ServiceIds, op : {"list_methods"}, method : {""}, args : {<<>>}]

NoRet == [done |-> FALSE, out |-> NoResult]

\* the handle plugin_init builds for the service, with a live context
LiveHandle(id) ==
    IF id = SERVICE_MCP_TOOLS THEN tools_handle(0) ELSE resources_handle(0)

CallToolsInvoke ==
    /\ ~ret.done /\ call.svc = SERVICE_MCP_TOOLS /\ call.op = "invoke"
    /\ ret' = [done |-> TRUE,
               out |-> mcp_tools_invoke(LiveHandle(call.svc).ptr, call.method, call.args)]
    /\ UNCHANGED <<lifecycleVars, call>>

CallToolsListMethods ==
    /\ ~ret.done /\ call.svc = SERVICE_MCP_TOOLS /\ call.op = "list_methods"
    /\ ret' = [done |-> TRUE, out |-> ROk(mcp_tools_list_methods(LiveHandle(call.svc).ptr))]
    /\ UNCHANGED <<lifecycleVars, call>>

CallResourcesInvoke ==
    /\ ~ret.done /\ call.svc = SERVICE_MCP_RESOURCES /\ call.op = "invoke"
    /\ ret' = [done |-> TRUE,
               out |-> mcp_resources_invoke(LiveHandle(call.svc).ptr, call.method, call.args)]
    /\ UNCHANGED <<lifecycleVars, call>>

CallResourcesListMethods ==
    /\ ~ret.done /\ call.svc = SERVICE_MCP_RESOURCES /\ call.op = "list_methods"
    /\ ret' = [done |-> TRUE,
               out |-> ROk(mcp_resources_list_methods(LiveHandle(call.svc).ptr))]
    /\ UNCHANGED <<lifecycleVars, call>>

(***************************************************************************)
(* Specifications                                                          *)
(***************************************************************************)
InitLifecycle ==
    /\ phase = "loaded"
    /\ registry = {}
    /\ status = <<>>
    /\ diag = <<>>
    /\ regCalls = <<>>
    /\ lastOp = "load"
    /\ freed = {}
    /\ inits = 0
    /\ callers = [c \in CallerThreads |-> IdleCaller]

NoCall == [svc |-> "", op |-> "", method |-> "", args |-> <<>>]

\* the plugin in its host: lifecycle, registry and concurrent dispatch
Init ==
    /\ InitLifecycle
    /\ call = NoCall
    /\ ret = NoRet

Next ==
    \/ plugin_init
    \/ plugin_cleanup
    \/ HostForceRemove
    \/ HostFreeContext
    \/ \E id \in ServiceIds : OtherRegister(id)
    \/ \E id \in ServiceIds : OtherUnregister(id)
    \/ \E c \in CallerThreads : DispatchResolve(c)
    \/ \E c \in CallerThreads : DispatchInvoke(c)
    \/ \E c \in CallerThreads : DispatchReturn(c)

Spec == Init /\ [][Next]_vars

\* the entry points called directly on every input of DirectCalls
InitInvoke ==
    /\ InitLifecycle
    /\ call \in DirectCalls
    /\ ret = NoRet

NextInvoke ==
    \/ CallToolsInvoke
    \/ CallToolsListMethods
    \/ CallResourcesInvoke
    \/ CallResourcesListMethods

SpecInvoke == InitInvoke /\ [][NextInvoke]_vars

(***************************************************************************)
(* Properties                                                              *)
(***************************************************************************)
Entry(rc) == [descriptor |-> rc.descriptor, handle |-> rc.handle]

\* entries of the registry that the last plugin_init call put there
RegisteredByLastInit ==
    {Entry(regCalls[i]) : i \in {j \in DOMAIN regCalls : regCalls[j].ok}} \cap registry

\* C1: after plugin_cleanup returns, following a plugin_init that returned 0,
\* neither service registered by plugin_init is still in the host registry.
C1_CleanupUnregistersAll ==
    (lastOp = "cleanup" /\ status = <<0>>) =>
        /\ OwnEntries(registry) = {}
        /\ RegisteredByLastInit = {}

\* C2: when a register_svc call of plugin_init fails, plugin_init returns a
\* nonzero status and has emitted an error-level diagnostic to the host.
C2_FailedRegistrationReported ==
    (\E i \in DOMAIN regCalls : ~regCalls[i].ok) =>
        /\ status # <<0>>
        /\ Len(status) = 1
        /\ \E k \in DOMAIN diag : diag[k].level = "error"

\* a plugin_init whose tools registration went through and whose resources
\* registration was rejected as a duplicate of another module's service
C2_Witness ==
    /\ lastOp = "init"
    /\ Len(regCalls) = 2 /\ regCalls[1].ok /\ ~regCalls[2].ok
    /\ \E e \in registry : /\ e.descriptor.id = SERVICE_MCP_RESOURCES
                           /\ e.descriptor.provider = OTHER_MODULE
    /\ status # <<0>>

\* C3: when plugin_init returns 0 it has registered each service exactly
\* once, the tools service and then the resources service, each with version
\* 1.0.0 and owner "adi.agent-loop", and both are in the registry on return.
C3_InitRegistersBoth ==
    (lastOp = "init" /\ status = <<0>>) =>
        /\ Len(regCalls) = 2
        /\ regCalls[1].descriptor.id = SERVICE_MCP_TOOLS
        /\ regCalls[2].descriptor.id = SERVICE_MCP_RESOURCES
        /\ \A i \in DOMAIN regCalls :
              /\ regCalls[i].ok
              /\ regCalls[i].descriptor.version = [major |-> 1, minor |-> 0, patch |-> 0]
              /\ regCalls[i].descriptor.provider = "adi.agent-loop"
              /\ regCalls[i].handle.service_id = regCalls[i].descriptor.id
              /\ Entry(regCalls[i]) \in registry
              /\ Cardinality({e \in registry :
                                 e.descriptor.id = regCalls[i].descriptor.id}) = 1

C3_Witness ==
    /\ lastOp = "init" /\ status = <<0>>
    /\ Cardinality(OwnEntries(registry)) = 2

\* the methods each service is documented to expose
DocumentedMethods(id) ==
    IF id = SERVICE_MCP_TOOLS THEN {"list_tools", "call_tool"}
    ELSE {"list_resources", "read_resource"}

IsMethodNotFound(r) == ~r.ok /\ r.err.kind = "MethodNotFound"

\* C4: for both services, a method name that is not one of the service's
\* methods (the empty name included), with any args payload, is answered by
\* an error of kind MethodNotFound carrying exactly the requested name.
C4_UnknownMethod ==
    (ret.done /\ call.op = "invoke" /\ call.method \notin DocumentedMethods(call.svc)) =>
        /\ ~ret.out.ok
        /\ ret.out.err.kind = "MethodNotFound"
        /\ ret.out.err.message = call.method

\* the empty method name with a malformed payload, on the resources service
C4_Witness ==
    /\ ret.done /\ call.op = "invoke" /\ call.svc = SERVICE_MCP_RESOURCES
    /\ call.method = ""
    /\ ~from_str(call.args).ok
    /\ IsMethodNotFound(ret.out)

\* names returned by the list_methods entry point of a service
ListedNames(id) ==
    LET l == IF id = SERVICE_MCP_TOOLS
             THEN mcp_tools_list_methods(LiveHandle(id).ptr)
             ELSE mcp_resources_list_methods(LiveHandle(id).ptr)
    IN {l[i].name : i \in DOMAIN l}

\* names the invoke entry point of a service dispatches, whatever the payload
DispatchedNames(id) ==
    {m \in MethodNames : \A a \in Payloads :
        ~IsMethodNotFound(IF id = SERVICE_MCP_TOOLS
                          THEN mcp_tools_invoke(LiveHandle(id).ptr, m, a)
                          ELSE mcp_resources_invoke(LiveHandle(id).ptr, m, a))}

\* C5: for each service the names returned by list_methods are exactly the
\* names invoke dispatches: a listed name is never answered MethodNotFound,
\* and a name not answered MethodNotFound is listed.
C5_ListingMatchesDispatch ==
    /\ (ret.done /\ call.op = "invoke") =>
          (IsMethodNotFound(ret.out) <=> call.method \notin ListedNames(call.svc))
    /\ (ret.done /\ call.op = "list_methods") =>
          {ret.out.val[i].name : i \in DOMAIN ret.out.val} = DispatchedNames(call.svc)

\* a listed method invoked with a malformed payload
C5_Witness ==
    /\ ret.done /\ call.op = "invoke" /\ call.svc = SERVICE_MCP_TOOLS
    /\ call.method = "call_tool"
    /\ ~from_str(call.args).ok
    /\ ~IsMethodNotFound(ret.out)

\* C6: every exposed method invoked with a payload that does not decode
\* fails with InvocationError carrying the decode diagnostic, never succeeds.
C6_MalformedPayloadRejected ==
    (/\ ret.done /\ call.op = "invoke"
     /\ call.method \in DocumentedMethods(call.svc)
     /\ ~from_str(call.args).ok) =>
        /\ ~ret.out.ok
        /\ ret.out.err.kind = "InvocationError"
        /\ ret.out.err.message = "Invalid args: " \o from_str(call.args).e

\* what the entry point of handle h answers when its context is live
AnswerWithLiveContext(c) ==
    LET h == [c.handle EXCEPT !.ptr = 0] IN
    IF c.op = "invoke" THEN vtable_invoke(h, c.method, c.args)
    ELSE ROk(vtable_list_methods(h))

\* C7: a dispatch in flight while the host runs plugin_cleanup, force-removes
\* the services or releases the context either completes with the result it
\* would return otherwise or observes NotRegistered; the entry points never
\* read the context pointer of the handle.
C7_InFlightDispatchSafe ==
    \A c \in CallerThreads :
        callers[c].pc = "done" =>
            IF callers[c].handle = NoHandle
            THEN callers[c].result = RErr([kind |-> "NotRegistered",
                                           message |-> callers[c].id])
            ELSE callers[c].result = AnswerWithLiveContext(callers[c])

\* a tools dispatch resolved before cleanup whose entry point ran after the
\* host released the context, and still answered
C7_Witness ==
    \E c \in CallerThreads :
        /\ callers[c].pc = "done"
        /\ callers[c].flight = "raced"
        /\ callers[c].handle.vtable = MCP_TOOLS_VTABLE
        /\ callers[c].op = "invoke"
        /\ callers[c].result.ok

UniqueIdentifiers ==
    \A e1 \in registry, e2 \in registry : e1.descriptor.id = e2.descriptor.id => e1 = e2

C9_InitAllOrNothing ==
    (lastOp = "init" /\ status # <<0>>) => RegisteredByLastInit = {}

\* tool names advertised by list_tools, read back from its answer
AdvertisedToolNames ==
    LET tools == from_str(list_tools_json).v.a
    IN {tools[i].o["name"].s : i \in DOMAIN tools}

\* the "name" field of a decoded call_tool payload, "" when absent or no string
RequestedTool(params) ==
    IF params.t = "obj" /\ "name" \in DOMAIN params.o /\ params.o["name"].t = "str"
    THEN params.o["name"].s
    ELSE ""

\* C10: call_tool with a decodable payload resolves exactly the names that
\* list_tools advertises: an advertised name is never answered "Unknown
\* tool", any other name (absent or non-string included) is answered by an
\* InvocationError.
C10_CallToolNames ==
    /\ AdvertisedToolNames = {"agent_run", "agent_sessions", "agent_session_get"}
    /\ (/\ ret.done /\ call.op = "invoke" /\ call.svc = SERVICE_MCP_TOOLS
        /\ call.method = "call_tool"
        /\ from_str(call.args).ok) =>
          LET name == RequestedTool(from_str(call.args).v) IN
          IF name \in AdvertisedToolNames
          THEN ret.out.ok \/ ret.out.err.message # "Unknown tool: " \o name
          ELSE /\ ~ret.out.ok
               /\ ret.out.err.kind = "InvocationError"
               /\ ret.out.err.message = "Unknown tool: " \o name

\* an advertised tool called by name, and answered with a tool result
C10_Witness ==
    /\ ret.done /\ call.op = "invoke" /\ call.svc = SERVICE_MCP_TOOLS
    /\ call.method = "call_tool"
    /\ from_str(call.args).ok
    /\ RequestedTool(from_str(call.args).v) = "agent_run"
    /\ ret.out.ok

====
